---- MODULE Spec2Model ----
(***************************************************************************)
(* State-machine model of the two scripts of the repository:               *)
(*   newsletter.py      feed -> rewrite -> image -> upload -> publish loop  *)
(*   pillar_article.py  one generated article -> image -> upload -> publish *)
(* The external services (feed source, generative API, CMS, fallback image *)
(* host) answer nondeterministically; every answer the code distinguishes  *)
(* is one outcome.  The CMS keeps the posts it acknowledged and its title  *)
(* search returns every post it holds whose rendered title is the title    *)
(* they were created with.                                                 *)
(***************************************************************************)
EXTENDS Integers, Sequences, FiniteSets, TLC

(* ---------------------------- bounds ----------------------------------- *)
\* eligible entries the feeds supply to one run, read or left unread
MaxEligible == 15
\* runs of the pillar script against the same CMS
MaxRuns == 2
\* entries of the longest feed of a run whose feeds are given in full
MaxFeedLen == 6

(* ----------------------- program constants ----------------------------- *)
TotalCap == 10
FeedCap == 5
NumFeeds == 2
RecencyHours == 24
TextMaxRetries == 3
TextBackoff == 30
ImageMaxRetries == 2
ImageBackoff == 20
TextImageDelay == 10
PostDelay == 30
CreatedStatus == 201
FallbackOkStatus == 200

\* models_to_try of newsletter.generate_image (IMAGE_MODEL first)
ModelsToTry ==
  << "imagen-3.0-generate-001", "gemini-2.5-flash-image",
     "gemini-3-pro-image-preview", "imagen-3.0-generate-001",
     "imagen-3.0-generate-002" >>

\* models_to_try of pillar_article.generate_image (IMAGE_MODEL first)
PillarModelsToTry ==
  << "gemini-2.0-flash-exp-image-generation", "imagen-3.0-generate-001",
     "imagen-3.0-generate-002", "gemini-2.5-flash-image" >>

(* ------------------------- input domains ------------------------------- *)
\* titles a feed entry (or the pillar generator) can carry
Titles == {"Coin X rallies", "Markets today"}

\* the instant main() reads as now (hours on an absolute UTC scale)
NowHour == 100

\* entry.published as the feed gives it: wall-clock hour plus an optional
\* UTC offset, or a string dateutil cannot parse
PublishedValues ==
  { [ok |-> TRUE,  wall |-> 98, aware |-> FALSE, off |-> 0],
    [ok |-> TRUE,  wall |-> 76, aware |-> FALSE, off |-> 0],
    [ok |-> TRUE,  wall |-> 80, aware |-> TRUE,  off |-> 5],
    [ok |-> FALSE, wall |-> 0,  aware |-> FALSE, off |-> 0] }

Entries == [title : Titles, published : PublishedValues]

NoEntry == [title |-> "None", published |-> [ok |-> FALSE, wall |-> 0, aware |-> FALSE, off |-> 0]]

NoPostData == [status |-> "None"]

\* Python's None for the integer-valued locals (media ids start at 1)
NoneId == 0
NoneTime == -1

\* the id the CMS returns for an uploaded media item
MediaId == 7

VARIABLES
  script,            \* which entry point runs: "newsletter" or "pillar"
  client,            \* module-level Gemini client is not None
  wp_creds,          \* WP_URL, WP_USER and WP_APP_PASSWORD are all set
  cms,               \* posts the CMS holds, counted per exact title
  pc,                \* position in the running script
  feed,              \* index of the feed being iterated (1..NumFeeds)
  posted_count,      \* main(): posted_count
  feed_posted,       \* main(): feed_posted
  entry,             \* main(): entry, the loop variable (last entry taken)
  published_parsed,  \* main(): published_parsed after tz normalisation
  title,             \* main(): title
  rewritten_content, \* main(): rewritten_content ("summary" = the original)
  image_prompt,      \* main(): image_prompt ("title" = the original title)
  image_bytes,       \* main(): image_bytes ("None", "ai", "fallback")
  media_id,          \* main(): media_id
  success,           \* main(): success ("True", "False", "None")
  attempt,           \* retry loop variable of the running generator
  wait_time,         \* rewrite_article_and_prompt(): wait_time
  model_idx,         \* generate_image(): position in models_to_try
  err,               \* generate_image(): the caught exception e
  post_data,         \* post_to_wordpress(): post_data
  textCalls,         \* history: generate_content calls of the running rewrite call
  rateLimited,       \* history: how many of those calls raised a 429 error
  text_response,     \* history: how the last generate_content call was answered
  slept,             \* history: seconds of the time.sleep the last step made (0: none)
  imgLog,            \* history: candidates the running generate_image call requested, in order
  imgFrom,           \* history: candidate whose answer that call returned (0: none)
  candReqs,          \* history: requests made for the current candidate
  img_response,      \* history: how the last clean-name generate_images request was answered
  searchCalls,       \* history: title searches of the current entry
  createCalls,       \* history: create requests of the current entry
  wp_response,       \* history: how the CMS answered the last search or create
  created,           \* history: posts this run created (201 answers), per title
  failures,          \* history: post_to_wordpress calls that did not return True
  eligible,          \* history: entries that passed the recency filter
  attempts,          \* history: calls of post_to_wordpress in this run
  skipped,           \* history: eligible entries left unread by a break
  runs,              \* pillar script: completed runs
  unread             \* entries of each feed (as get_news returned it) not yet taken by the loop

mainVars == << feed, posted_count, feed_posted >>
entryVars == << entry, published_parsed, title >>
genVars == << rewritten_content, image_prompt, attempt, wait_time, textCalls, rateLimited,
             text_response >>
imgVars == << image_bytes, model_idx, err, imgLog, imgFrom, candReqs, img_response >>
pubVars == << media_id, success, post_data, searchCalls, createCalls, wp_response >>
histVars == << eligible, attempts, skipped, created, failures >>
envVars == << script, client, wp_creds, runs, unread >>

vars == << envVars, cms, pc, mainVars, entryVars, genVars, imgVars, pubVars, histVars, slept >>

NoErr == [h404 |-> FALSE, h429 |-> FALSE]
Errors == [h404 : BOOLEAN, h429 : BOOLEAN]
NoReqs == [clean |-> 0, prefixed |-> 0]

(* --------------------------- pure helpers ------------------------------ *)
\* parser.parse + the tzinfo normalisation: the UTC instant of a timestamp
Normalize(p) == IF p.aware THEN p.wall - p.off ELSE p.wall

Cutoff == NowHour - RecencyHours

\* variant: an entry exactly at the cutoff is accepted
IsRecent_Inclusive(instant) == instant >= Cutoff

IsRecent(instant) == instant > Cutoff

\* variant: the backoff does not grow with the attempt
TextWait_Flat(a) == TextBackoff

\* the backoff of rewrite_article_and_prompt before retry number a+1
TextWait(a) == (a + 1) * TextBackoff

IsRateLimited(e) == e.h429

IsNotFound(e) == e.h404

\* what the handlers read off an exception: the rate-limit signal or not
ErrorKind(e) == IF IsRateLimited(e) THEN "rate_limited" ELSE "error"

\* variant: the media reference is never put into post_data
BuildPostData_NoMedia(t, content, mid) ==
  [title |-> t, content |-> content, status |-> "publish"]

\* variant: featured_media is set without the test on featured_media_id
BuildPostData_AlwaysMedia(t, content, mid) ==
  [title |-> t, content |-> content, status |-> "publish", featured_media |-> mid]

\* post_data as post_to_wordpress builds it
BuildPostData(t, content, mid) ==
  IF mid # NoneId
    THEN [title |-> t, content |-> content, status |-> "publish", featured_media |-> mid]
    ELSE [title |-> t, content |-> content, status |-> "publish"]

HasFeaturedMedia(pd) == "featured_media" \in DOMAIN pd

\* variant: the scan of existing_posts never matches
TitleExists_NeverMatches(held, t) == FALSE

\* the duplicate check over existing_posts: some held post has this title
TitleExists(held, t) == held[t] > 0

AddPost(held, t) == [held EXCEPT ![t] = @ + 1]

(* ------------------------------ Init ----------------------------------- *)
\* feed lengths left open: the loop may find any number of entries
OpenFeeds == [f \in 1..NumFeeds |-> 0]

\* the feeds of a run given in full, as the number of entries of each: a
\* long feed followed by a short one, two short ones, an empty first feed
FeedLengths ==
  { << MaxFeedLen, 1 >>, << 1, 1 >>, << 0, 2 >> }

\* the state of both scripts when main() starts, the feeds apart
InitProgram ==
  /\ script \in {"newsletter", "pillar"}
  /\ client \in BOOLEAN
  /\ wp_creds \in BOOLEAN
  /\ cms \in [Titles -> {0, 1}]
  /\ pc = IF script = "newsletter" THEN "loop" ELSE "p_start"
  /\ feed = 1
  /\ posted_count = 0
  /\ feed_posted = 0
  /\ entry = NoEntry
  /\ published_parsed = NoneTime
  /\ title = "None"
  /\ rewritten_content = "None"
  /\ image_prompt = "None"
  /\ image_bytes = "None"
  /\ media_id = NoneId
  /\ success = "None"
  /\ attempt = 0
  /\ wait_time = 0
  /\ model_idx = 0
  /\ err = NoErr
  /\ post_data = NoPostData
  /\ textCalls = 0
  /\ rateLimited = 0
  /\ text_response = "None"
  /\ slept = 0
  /\ imgLog = << >>
  /\ imgFrom = 0
  /\ candReqs = NoReqs
  /\ img_response = "None"
  /\ searchCalls = 0
  /\ createCalls = 0
  /\ wp_response = "None"
  /\ created = [t \in Titles |-> 0]
  /\ failures = 0
  /\ eligible = 0
  /\ attempts = 0
  /\ skipped = 0
  /\ runs = 0

\* a run over feeds of any length
Init ==
  /\ InitProgram
  /\ unread = OpenFeeds

\* a newsletter run over feeds given in full
TermInit ==
  /\ InitProgram
  /\ script = "newsletter"
  /\ unread \in FeedLengths


(* ===================== newsletter.py : main() ========================== *)
\* variant: both comparisons are strict
CapReached_OffByOne(total, perFeed) == total > TotalCap \/ perFeed > FeedCap

\* the two stopping conditions at the head of the entry loop
CapReached(total, perFeed) == total >= TotalCap \/ perFeed >= FeedCap

\* the locals of one loop iteration are dead once the iteration ends
ClearEntry ==
  /\ entry' = entry
  /\ published_parsed' = NoneTime
  /\ title' = "None"
  /\ rewritten_content' = "None"
  /\ image_prompt' = "None"
  /\ attempt' = 0
  /\ wait_time' = 0
  /\ textCalls' = 0
  /\ rateLimited' = 0
  /\ text_response' = "None"
  /\ image_bytes' = "None"
  /\ model_idx' = 0
  /\ err' = NoErr
  /\ imgLog' = << >>
  /\ imgFrom' = 0
  /\ candReqs' = NoReqs
  /\ img_response' = "None"
  /\ media_id' = NoneId
  /\ success' = "None"
  /\ post_data' = NoPostData
  /\ searchCalls' = 0
  /\ createCalls' = 0
  /\ wp_response' = "None"

\* the inner loop over entries ends: next feed, or the final print
LeaveFeed ==
  IF feed < NumFeeds
    THEN /\ feed' = feed + 1
         /\ feed_posted' = 0
         /\ pc' = "loop"
    ELSE /\ pc' = "done"
         /\ UNCHANGED << feed, feed_posted >>

\* for entry in entries: the feed has no further entry
FeedExhausted ==
  /\ pc = "loop"
  /\ slept' = 0
  /\ LeaveFeed
  /\ UNCHANGED << envVars, cms, posted_count, entryVars, genVars, imgVars, pubVars, histVars >>

\* if posted_count >= 10 or feed_posted >= 5: break, with a next entry in hand;
\* k counts the eligible entries the break leaves unread
CapBreak ==
  /\ pc = "loop"
  /\ slept' = 0
  /\ CapReached(posted_count, feed_posted)
  /\ \E k \in 0..(MaxEligible - eligible - skipped) : skipped' = skipped + k
  /\ LeaveFeed
  /\ UNCHANGED << envVars, cms, posted_count, entryVars, genVars, imgVars, pubVars,
                  eligible, attempts, created, failures >>

\* what the feed source guarantees about one run: at most MaxEligible recent entries
FeedCanSupply(e) ==
  (e.published.ok /\ Normalize(e.published) > NowHour - RecencyHours)
     => eligible + skipped < MaxEligible

\* the loop takes the next entry of the feed
NextEntry ==
  /\ pc = "loop"
  /\ slept' = 0
  /\ ~ CapReached(posted_count, feed_posted)
  /\ \E e \in Entries :
       /\ FeedCanSupply(e)
       /\ entry' = e
  /\ pc' = "parse"
  /\ UNCHANGED << envVars, cms, mainVars, published_parsed, title, genVars, imgVars,
                  pubVars, histVars >>

\* for entry in entries, over a feed given in full: the list is used up
FeedEnds ==
  /\ pc = "loop"
  /\ slept' = 0
  /\ unread[feed] = 0
  /\ LeaveFeed
  /\ UNCHANGED << envVars, cms, posted_count, entryVars, genVars, imgVars, pubVars, histVars >>

\* the break over a feed given in full: the rest of the list stays unread
\* (k of its entries being recent ones)
CapBreakRest ==
  /\ pc = "loop"
  /\ slept' = 0
  /\ unread[feed] > 0
  /\ CapReached(posted_count, feed_posted)
  /\ \E k \in 0..unread[feed] : skipped' = skipped + k
  /\ LeaveFeed
  /\ UNCHANGED << envVars, cms, posted_count, entryVars, genVars, imgVars, pubVars,
                  eligible, attempts, created, failures >>

\* the loop takes the next entry of a feed given in full
TakeEntry ==
  /\ pc = "loop"
  /\ slept' = 0
  /\ unread[feed] > 0
  /\ ~ CapReached(posted_count, feed_posted)
  /\ \E e \in Entries : entry' = e
  /\ unread' = [unread EXCEPT ![feed] = @ - 1]
  /\ pc' = "parse"
  /\ UNCHANGED << script, client, wp_creds, runs, cms, mainVars, published_parsed, title,
                  genVars, imgVars, pubVars, histVars >>

\* parser.parse(entry.published), tz normalisation, the recency test
ParseEntry ==
  /\ pc = "parse"
  /\ slept' = 0
  /\ IF ~ entry.published.ok
       THEN /\ pc' = "except"
            /\ UNCHANGED << entryVars, genVars, imgVars, pubVars, histVars >>
       ELSE IF IsRecent(Normalize(entry.published))
         THEN /\ published_parsed' = Normalize(entry.published)
              /\ title' = entry.title
              /\ eligible' = eligible + 1
              /\ pc' = "rewrite"
              /\ UNCHANGED << entry, genVars, imgVars, pubVars, attempts, skipped,
                              created, failures >>
         ELSE /\ ClearEntry
              /\ pc' = "loop"
              /\ UNCHANGED histVars
  /\ UNCHANGED << envVars, cms, mainVars >>

(* ============== newsletter.py : rewrite_article_and_prompt ============= *)
\* return summary, title
TextFallback ==
  /\ rewritten_content' = "summary"
  /\ image_prompt' = "title"
  /\ pc' = "sleep10"

\* variant: the test on the client is missing
RewriteEnter_CallsAnyway ==
  /\ pc = "rewrite"
  /\ slept' = 0
  /\ attempt' = 0
  /\ pc' = "rw_call"
  /\ UNCHANGED << rewritten_content, image_prompt, wait_time, textCalls, rateLimited,
                  text_response >>
  /\ UNCHANGED << envVars, cms, mainVars, entryVars, imgVars, pubVars, histVars >>

\* the function is entered: without a client it returns the fallback at once
RewriteEnter ==
  /\ pc = "rewrite"
  /\ slept' = 0
  /\ IF ~ client
       THEN /\ TextFallback
            /\ UNCHANGED << attempt, wait_time, textCalls, rateLimited, text_response >>
       ELSE /\ attempt' = 0
            /\ pc' = "rw_call"
            /\ UNCHANGED << rewritten_content, image_prompt, wait_time, textCalls,
                            rateLimited, text_response >>
  /\ UNCHANGED << envVars, cms, mainVars, entryVars, imgVars, pubVars, histVars >>

\* variant: a response without the markers raises out of the function
TextNextAttempt_Raises ==
  /\ pc' = "except"
  /\ UNCHANGED << rewritten_content, image_prompt, attempt >>

\* the next iteration of for attempt in range(max_retries), without a sleep
TextNextAttempt ==
  IF attempt + 1 < TextMaxRetries
    THEN /\ attempt' = attempt + 1
         /\ pc' = "rw_call"
         /\ UNCHANGED << rewritten_content, image_prompt >>
    ELSE /\ TextFallback
         /\ UNCHANGED attempt

\* variant: the last retry is given up one attempt early
TextShouldRetry_OneShort(e, a) == IsRateLimited(e) /\ a < TextMaxRetries - 2

\* "429" in str(e) and attempt < max_retries - 1
TextShouldRetry(e, a) == IsRateLimited(e) /\ a < TextMaxRetries - 1

\* one client.models.generate_content call and what the code does with its
\* answer: "ok" has both markers, "malformed" is empty or lacks a marker
RewriteCall ==
  /\ pc = "rw_call"
  /\ slept' = 0
  /\ textCalls' = textCalls + 1
  /\ \/ /\ text_response' = "generated"
        /\ rewritten_content' = "generated"
        /\ image_prompt' = "generated"
        /\ pc' = "sleep10"
        /\ UNCHANGED << attempt, wait_time, rateLimited >>
     \/ /\ text_response' = "malformed"
        /\ TextNextAttempt
        /\ UNCHANGED << wait_time, rateLimited >>
     \/ \E e \in Errors :
          /\ text_response' = ErrorKind(e)
          /\ rateLimited' = IF IsRateLimited(e) THEN rateLimited + 1 ELSE rateLimited
          /\ IF TextShouldRetry(e, attempt)
               THEN /\ wait_time' = TextWait(attempt)
                    /\ pc' = "rw_sleep"
                    /\ UNCHANGED << rewritten_content, image_prompt, attempt >>
               ELSE /\ TextFallback
                    /\ UNCHANGED << attempt, wait_time >>
  /\ UNCHANGED << envVars, cms, mainVars, entryVars, imgVars, pubVars, histVars >>

\* time.sleep(wait_time); continue
RewriteSleep ==
  /\ pc = "rw_sleep"
  /\ slept' = wait_time
  /\ attempt' = attempt + 1
  /\ pc' = "rw_call"
  /\ UNCHANGED << envVars, cms, mainVars, entryVars, rewritten_content, image_prompt,
                  wait_time, textCalls, rateLimited, text_response, imgVars, pubVars, histVars >>

\* time.sleep(10) between the text call and the image call
SleepBeforeImage ==
  /\ pc = "sleep10"
  /\ slept' = TextImageDelay
  /\ pc' = "image"
  /\ attempt' = 0
  /\ wait_time' = 0
  /\ textCalls' = 0
  /\ rateLimited' = 0
  /\ text_response' = "None"
  /\ UNCHANGED << envVars, cms, mainVars, entryVars, rewritten_content, image_prompt,
                  imgVars, pubVars, histVars >>


(* ==================== newsletter.py : generate_image =================== *)
\* the request log: candidate i is requested (a repeat of the last one merges)
Logged(log, i) == IF log # << >> /\ log[Len(log)] = i THEN log ELSE Append(log, i)

\* the function is entered: without a client it returns None at once
ImageEnter ==
  /\ pc = "image"
  /\ slept' = 0
  /\ IF ~ client
       THEN /\ pc' = "fallback"
            /\ UNCHANGED << model_idx, attempt >>
       ELSE /\ model_idx' = 1
            /\ attempt' = 0
            /\ pc' = "img_call"
  /\ UNCHANGED << envVars, cms, mainVars, entryVars, rewritten_content, image_prompt,
                  wait_time, textCalls, rateLimited, text_response, image_bytes, err, imgLog, imgFrom,
                  candReqs, img_response, pubVars, histVars >>

\* return response.generated_images[0].image.image_bytes
ImageReturn ==
  /\ image_bytes' = "ai"
  /\ imgFrom' = model_idx
  /\ attempt' = 0
  /\ err' = NoErr
  /\ pc' = "fallback"
  /\ UNCHANGED model_idx

\* variant: leaving a candidate skips the one after it
ImageNextModel_Skips(models) ==
  IF model_idx + 1 < Len(models)
    THEN /\ model_idx' = model_idx + 2
         /\ attempt' = 0
         /\ err' = NoErr
         /\ pc' = "img_call"
         /\ UNCHANGED << image_bytes, imgFrom >>
    ELSE /\ err' = NoErr
         /\ attempt' = 0
         /\ pc' = "fallback"
         /\ UNCHANGED << image_bytes, imgFrom, model_idx >>

\* break out of the retry loop: the next candidate, or return None after the last
ImageNextModel(models) ==
  IF model_idx < Len(models)
    THEN /\ model_idx' = model_idx + 1
         /\ attempt' = 0
         /\ err' = NoErr
         /\ pc' = "img_call"
         /\ UNCHANGED << image_bytes, imgFrom >>
    ELSE /\ err' = NoErr
         /\ attempt' = 0
         /\ pc' = "fallback"
         /\ UNCHANGED << image_bytes, imgFrom, model_idx >>

\* variant: the test on the attempt number is missing
ImageShouldRetry_NoBound(e, a) == IsRateLimited(e)

\* "429" in str(e) and attempt < max_retries - 1
ImageShouldRetry(e, a) == IsRateLimited(e) /\ a < ImageMaxRetries - 1

\* the tail of the except block, after the 404 branch: retry the candidate or leave it
ImageRetryOrNext(e) ==
  IF ImageShouldRetry(e, attempt)
    THEN /\ pc' = "img_sleep"
         /\ err' = e
         /\ UNCHANGED << image_bytes, imgFrom, model_idx, attempt >>
    ELSE ImageNextModel(ModelsToTry)

\* variant: the prefixed request is tried after every error
ImageShouldPrefix_AnyError(e) == TRUE

\* "404" in str(e) and not clean_model_name.startswith('models/'): no name of
\* models_to_try keeps the prefix after replace('models/', '')
ImageShouldPrefix(e) == IsNotFound(e)

\* the candidate whose request is counted and logged
CountRequest(kind) ==
  /\ candReqs' = IF imgLog # << >> /\ imgLog[Len(imgLog)] = model_idx
                   THEN [candReqs EXCEPT ![kind] = @ + 1]
                   ELSE [NoReqs EXCEPT ![kind] = 1]
  /\ imgLog' = Logged(imgLog, model_idx)

\* one generate_images request under the clean model name
ImageCall ==
  /\ pc = "img_call"
  /\ slept' = 0
  /\ CountRequest("clean")
  /\ \/ /\ img_response' = "image"
        /\ ImageReturn
     \/ /\ img_response' = "empty"
        /\ ImageNextModel(ModelsToTry)
     \/ \E e \in Errors :
          /\ img_response' = ErrorKind(e)
          /\ IF ImageShouldPrefix(e)
               THEN /\ err' = e
                    /\ pc' = "img_prefixed"
                    /\ UNCHANGED << image_bytes, imgFrom, model_idx, attempt >>
               ELSE ImageRetryOrNext(e)
  /\ UNCHANGED << envVars, cms, mainVars, entryVars, rewritten_content, image_prompt,
                  wait_time, textCalls, rateLimited, text_response, pubVars, histVars >>

\* the request under "models/" + name, inside the 404 branch; any failure of
\* it is swallowed and the handler goes on with the first exception e
ImagePrefixedCall ==
  /\ pc = "img_prefixed"
  /\ slept' = 0
  /\ CountRequest("prefixed")
  /\ UNCHANGED img_response
  /\ \/ ImageReturn
     \/ ImageRetryOrNext(err)
  /\ UNCHANGED << envVars, cms, mainVars, entryVars, rewritten_content, image_prompt,
                  wait_time, textCalls, rateLimited, text_response, pubVars, histVars >>

\* time.sleep(20); continue
ImageSleep ==
  /\ pc = "img_sleep"
  /\ slept' = ImageBackoff
  /\ attempt' = attempt + 1
  /\ err' = NoErr
  /\ pc' = "img_call"
  /\ UNCHANGED << envVars, cms, mainVars, entryVars, rewritten_content, image_prompt,
                  wait_time, textCalls, rateLimited, text_response, image_bytes, model_idx,
                  imgLog, imgFrom, candReqs, img_response, pubVars, histVars >>

(* ============ newsletter.py : main(), fallback image and upload ======== *)
\* if not image_bytes: requests.get(fallback_url); 200 gives the bytes, any
\* other status or an exception leaves image_bytes as it is
FallbackImage ==
  /\ pc = "fallback"
  /\ slept' = 0
  /\ IF image_bytes = "None"
       THEN \/ image_bytes' = "fallback"
            \/ image_bytes' = image_bytes
       ELSE image_bytes' = image_bytes
  /\ candReqs' = NoReqs
  /\ img_response' = "None"
  /\ imgLog' = << >>
  /\ imgFrom' = 0
  /\ model_idx' = 0
  /\ pc' = "upload"
  /\ UNCHANGED << envVars, cms, mainVars, entryVars, genVars, err, pubVars, histVars >>

\* upload_media_to_wordpress: the id of a 201 answer, None for everything else
UploadResult(status, id) == IF status = CreatedStatus THEN id ELSE NoneId

\* media_id = None; if image_bytes: media_id = upload_media_to_wordpress(...)
UploadMedia ==
  /\ pc = "upload"
  /\ slept' = 0
  /\ IF image_bytes = "None" \/ ~ wp_creds
       THEN media_id' = NoneId
       ELSE \/ \E status \in {CreatedStatus, 500}, id \in {MediaId, NoneId} :
                 media_id' = UploadResult(status, id)
            \/ media_id' = NoneId
  /\ pc' = "post"
  /\ UNCHANGED << envVars, cms, mainVars, entryVars, genVars, imgVars, success,
                  post_data, searchCalls, createCalls, wp_response, histVars >>


(* ================= newsletter.py : post_to_wordpress =================== *)
\* variant: the counters are advanced when the publish call is made
PostEnter_Optimistic ==
  /\ pc = "post"
  /\ slept' = 0
  /\ attempts' = attempts + 1
  /\ posted_count' = posted_count + 1
  /\ feed_posted' = feed_posted + 1
  /\ IF ~ wp_creds
       THEN /\ success' = "False"
            /\ failures' = failures + 1
            /\ pc' = "count"
            /\ UNCHANGED post_data
       ELSE /\ post_data' = BuildPostData(title, rewritten_content, media_id)
            /\ pc' = "search"
            /\ UNCHANGED << success, failures >>
  /\ UNCHANGED << envVars, cms, feed, entryVars, genVars, imgVars, media_id,
                  searchCalls, createCalls, wp_response, eligible, skipped, created >>

\* the call: credential check, post_data built
PostEnter ==
  /\ pc = "post"
  /\ slept' = 0
  /\ attempts' = attempts + 1
  /\ IF ~ wp_creds
       THEN /\ success' = "False"
            /\ failures' = failures + 1
            /\ pc' = "count"
            /\ UNCHANGED post_data
       ELSE /\ post_data' = BuildPostData(title, rewritten_content, media_id)
            /\ pc' = "search"
            /\ UNCHANGED << success, failures >>
  /\ UNCHANGED << envVars, cms, mainVars, entryVars, genVars, imgVars, media_id,
                  searchCalls, createCalls, wp_response, eligible, skipped, created >>

\* variant: a failed search is ignored and the post is created anyway
SearchExisting_IgnoresFailure ==
  /\ pc = "search"
  /\ slept' = 0
  /\ searchCalls' = searchCalls + 1
  /\ \/ /\ wp_response' = "search_ok"
        /\ IF TitleExists(cms, post_data.title)
             THEN /\ success' = "True"
                  /\ pc' = "count"
             ELSE /\ pc' = "create"
                  /\ UNCHANGED success
     \/ /\ wp_response' \in {"search_http_error", "search_transport"}
        /\ pc' = "create"
        /\ UNCHANGED success
  /\ UNCHANGED << envVars, cms, mainVars, entryVars, genVars, imgVars, media_id,
                  post_data, createCalls, histVars >>

\* requests.get(api_url, params={"search": title}) and the scan of the answer:
\*   an answered search lists the posts the CMS holds; a match returns True
\*   an error status or a transport failure is a RequestException: return False
\*   a 200 body that is no list of posts raises another exception to main()
SearchExisting ==
  /\ pc = "search"
  /\ slept' = 0
  /\ searchCalls' = searchCalls + 1
  /\ \/ /\ wp_response' = "search_ok"
        /\ IF TitleExists(cms, post_data.title)
             THEN /\ success' = "True"
                  /\ pc' = "count"
             ELSE /\ pc' = "create"
                  /\ UNCHANGED success
        /\ UNCHANGED failures
     \/ /\ wp_response' \in {"search_http_error", "search_transport"}
        /\ success' = "False"
        /\ failures' = failures + 1
        /\ pc' = "count"
     \/ /\ wp_response' = "search_malformed"
        /\ failures' = failures + 1
        /\ pc' = "except"
        /\ UNCHANGED success
  /\ UNCHANGED << envVars, cms, mainVars, entryVars, genVars, imgVars, media_id,
                  post_data, createCalls, eligible, attempts, skipped, created >>

\* the value post_to_wordpress returns for an answered create request
CreateResult(status) == IF status = CreatedStatus THEN "True" ELSE "False"

\* requests.post(api_url, json=post_data):
\*   201: the CMS stored the post; another 2xx: return False
\*   an error status or a transport failure is a RequestException: return False
\*   (the CMS may have stored the post when only the answer was lost)
CreatePost ==
  /\ pc = "create"
  /\ slept' = 0
  /\ createCalls' = createCalls + 1
  /\ \/ /\ wp_response' = "create_201"
        /\ cms' = AddPost(cms, post_data.title)
        /\ created' = AddPost(created, post_data.title)
        /\ success' = CreateResult(CreatedStatus)
     \/ /\ wp_response' = "create_200"
        /\ success' = CreateResult(FallbackOkStatus)
        /\ UNCHANGED << cms, created >>
     \/ /\ wp_response' \in {"create_http_error", "create_transport"}
        /\ success' = "False"
        /\ UNCHANGED << cms, created >>
     \/ /\ wp_response' = "create_answer_lost"
        /\ success' = "False"
        /\ cms' = AddPost(cms, post_data.title)
        /\ UNCHANGED created
  /\ failures' = IF success' = "True" THEN failures ELSE failures + 1
  /\ pc' = "count"
  /\ UNCHANGED << envVars, mainVars, entryVars, genVars, imgVars, media_id,
                  post_data, searchCalls, eligible, attempts, skipped >>

(* ============= newsletter.py : main(), counting and the handler ======== *)
\* variant: the counters are advanced for every attempt, successful or not
CountSuccess_CountsAttempts ==
  /\ pc = "count"
  /\ slept' = 0
  /\ posted_count' = posted_count + 1
  /\ feed_posted' = feed_posted + 1
  /\ pc' = "sleep30"
  /\ UNCHANGED << envVars, cms, feed, entryVars, genVars, imgVars, pubVars, histVars >>

\* variant: the pause after a publication is missing
CountSuccess_NoPause ==
  /\ pc = "count"
  /\ slept' = 0
  /\ IF success = "True"
       THEN /\ posted_count' = posted_count + 1
            /\ feed_posted' = feed_posted + 1
       ELSE UNCHANGED << posted_count, feed_posted >>
  /\ ClearEntry
  /\ pc' = "loop"
  /\ UNCHANGED << envVars, cms, feed, histVars >>

\* if success: both counters += 1, then the 30 s pause
CountSuccess ==
  /\ pc = "count"
  /\ slept' = 0
  /\ IF success = "True"
       THEN /\ posted_count' = posted_count + 1
            /\ feed_posted' = feed_posted + 1
            /\ pc' = "sleep30"
            /\ UNCHANGED << entryVars, genVars, imgVars, pubVars >>
       ELSE /\ ClearEntry
            /\ pc' = "loop"
            /\ UNCHANGED << posted_count, feed_posted >>
  /\ UNCHANGED << envVars, cms, feed, histVars >>

\* time.sleep(30), end of the iteration
SleepAfterPost ==
  /\ pc = "sleep30"
  /\ slept' = PostDelay
  /\ ClearEntry
  /\ pc' = "loop"
  /\ UNCHANGED << envVars, cms, mainVars, histVars >>

\* variant: the handler ends the run instead of continuing
HandleEntryError_Aborts ==
  /\ pc = "except"
  /\ slept' = 0
  /\ ClearEntry
  /\ pc' = "done"
  /\ UNCHANGED << envVars, cms, mainVars, histVars >>

\* variant: the handler goes back to the entry it failed on
HandleEntryError_Retries ==
  /\ pc = "except"
  /\ slept' = 0
  /\ pc' = "parse"
  /\ UNCHANGED << envVars, cms, mainVars, entryVars, genVars, imgVars, pubVars, histVars >>

\* except Exception as e: print; continue
HandleEntryError ==
  /\ pc = "except"
  /\ slept' = 0
  /\ ClearEntry
  /\ pc' = "loop"
  /\ UNCHANGED << envVars, cms, mainVars, histVars >>

(* ===================== pillar_article.py ============================== *)
\* the locals of one run of the pillar script, cleared when the process ends
PillarClear ==
  /\ title' = "None"
  /\ rewritten_content' = "None"
  /\ image_prompt' = "None"
  /\ image_bytes' = "None"
  /\ model_idx' = 0
  /\ err' = NoErr
  /\ imgLog' = << >>
  /\ imgFrom' = 0
  /\ candReqs' = NoReqs
  /\ img_response' = "None"
  /\ media_id' = NoneId
  /\ success' = "None"
  /\ post_data' = NoPostData
  /\ textCalls' = 0
  /\ text_response' = "None"
  /\ createCalls' = 0
  /\ wp_response' = "None"

\* if not title or not content: return
PillarUsable(t, content) == t # "None" /\ t # "" /\ content # "None"

\* variant: main() goes on after a failed generation
PillarGenerate_GoesOn ==
  /\ pc = "p_start"
  /\ slept' = 0
  /\ IF ~ client
       THEN /\ pc' = "p_exit"
            /\ UNCHANGED << title, rewritten_content, image_prompt, textCalls,
                            text_response >>
       ELSE /\ textCalls' = textCalls + 1
            /\ \/ \E t \in Titles \cup {""} :
                    /\ text_response' = "generated"
                    /\ title' = t
                    /\ rewritten_content' = "generated"
                    /\ image_prompt' = "generated"
                    /\ pc' = IF PillarUsable(t, "generated") THEN "p_image" ELSE "p_exit"
               \/ /\ text_response' \in {"malformed", "rate_limited", "error"}
                  /\ pc' = "p_image"
                  /\ UNCHANGED << title, rewritten_content, image_prompt >>
  /\ UNCHANGED << envVars, cms, mainVars, entry, published_parsed, attempt, wait_time,
                  rateLimited, imgVars, pubVars, histVars >>

\* generate_pillar_article_and_prompt and the test main() makes on its result:
\* without a client no call is made; a call answers with the three markers
\* (the title between them may be empty), or malformed, or raises
PillarGenerate ==
  /\ pc = "p_start"
  /\ slept' = 0
  /\ IF ~ client
       THEN /\ pc' = "p_exit"
            /\ UNCHANGED << title, rewritten_content, image_prompt, textCalls,
                            text_response >>
       ELSE /\ textCalls' = textCalls + 1
            /\ \/ \E t \in Titles \cup {""} :
                    /\ text_response' = "generated"
                    /\ title' = t
                    /\ rewritten_content' = "generated"
                    /\ image_prompt' = "generated"
                    /\ pc' = IF PillarUsable(t, "generated") THEN "p_image" ELSE "p_exit"
               \/ /\ text_response' \in {"malformed", "rate_limited", "error"}
                  /\ pc' = "p_exit"
                  /\ UNCHANGED << title, rewritten_content, image_prompt >>
  /\ UNCHANGED << envVars, cms, mainVars, entry, published_parsed, attempt, wait_time,
                  rateLimited, imgVars, pubVars, histVars >>

\* generate_image of the pillar script is entered
PillarImageEnter ==
  /\ pc = "p_image"
  /\ slept' = 0
  /\ IF ~ client
       THEN /\ pc' = "p_fallback"
            /\ UNCHANGED model_idx
       ELSE /\ model_idx' = 1
            /\ pc' = "p_img_call"
  /\ UNCHANGED << envVars, cms, mainVars, entryVars, genVars, image_bytes, err, imgLog,
                  imgFrom, candReqs, img_response, pubVars, histVars >>

\* return response.generated_images[0].image.image_bytes
PillarImageReturn ==
  /\ image_bytes' = "ai"
  /\ imgFrom' = model_idx
  /\ err' = NoErr
  /\ pc' = "p_fallback"
  /\ UNCHANGED model_idx

\* the for loop goes on: the next candidate, or return None after the last
PillarNextModel ==
  IF model_idx < Len(PillarModelsToTry)
    THEN /\ model_idx' = model_idx + 1
         /\ err' = NoErr
         /\ pc' = "p_img_call"
         /\ UNCHANGED << image_bytes, imgFrom >>
    ELSE /\ err' = NoErr
         /\ pc' = "p_fallback"
         /\ UNCHANGED << image_bytes, imgFrom, model_idx >>

\* one generate_images request under the clean model name
PillarImageCall ==
  /\ pc = "p_img_call"
  /\ slept' = 0
  /\ CountRequest("clean")
  /\ \/ /\ img_response' = "image"
        /\ PillarImageReturn
     \/ /\ img_response' = "empty"
        /\ PillarNextModel
     \/ \E e \in Errors :
          /\ img_response' = ErrorKind(e)
          /\ IF ImageShouldPrefix(e)
               THEN /\ err' = e
                    /\ pc' = "p_img_prefixed"
                    /\ UNCHANGED << image_bytes, imgFrom, model_idx >>
               ELSE PillarNextModel
  /\ UNCHANGED << envVars, cms, mainVars, entryVars, genVars, pubVars, histVars >>

\* the request under "models/" + name inside the 404 branch
PillarImagePrefixedCall ==
  /\ pc = "p_img_prefixed"
  /\ slept' = 0
  /\ CountRequest("prefixed")
  /\ UNCHANGED img_response
  /\ \/ PillarImageReturn
     \/ PillarNextModel
  /\ UNCHANGED << envVars, cms, mainVars, entryVars, genVars, pubVars, histVars >>

\* if not image_bytes: requests.get(FALLBACK_IMAGE)
PillarFallbackImage ==
  /\ pc = "p_fallback"
  /\ slept' = 0
  /\ IF image_bytes = "None"
       THEN \/ image_bytes' = "fallback"
            \/ image_bytes' = image_bytes
       ELSE image_bytes' = image_bytes
  /\ candReqs' = NoReqs
  /\ img_response' = "None"
  /\ imgLog' = << >>
  /\ imgFrom' = 0
  /\ model_idx' = 0
  /\ pc' = "p_upload"
  /\ UNCHANGED << envVars, cms, mainVars, entryVars, genVars, err, pubVars, histVars >>

\* media_id = None; if image_bytes: media_id = upload_media_to_wordpress(...)
PillarUploadMedia ==
  /\ pc = "p_upload"
  /\ slept' = 0
  /\ IF image_bytes = "None" \/ ~ wp_creds
       THEN media_id' = NoneId
       ELSE \/ \E status \in {CreatedStatus, 500}, id \in {MediaId, NoneId} :
                 media_id' = UploadResult(status, id)
            \/ media_id' = NoneId
  /\ pc' = "p_post"
  /\ UNCHANGED << envVars, cms, mainVars, entryVars, genVars, imgVars, success,
                  post_data, searchCalls, createCalls, wp_response, histVars >>

\* what the pillar post_to_wordpress returns for an answered create request:
\* True for 201, and it falls off the end (None) for any other success status
PillarCreateResult(status) == IF status = CreatedStatus THEN "True" ELSE "None"

\* post_to_wordpress of the pillar script: the create request is sent at once
PillarPost ==
  /\ pc = "p_post"
  /\ slept' = 0
  /\ attempts' = attempts + 1
  /\ IF ~ wp_creds
       THEN /\ success' = "False"
            /\ UNCHANGED << post_data, createCalls, cms, wp_response, created >>
       ELSE /\ post_data' = BuildPostData(title, rewritten_content, media_id)
            /\ createCalls' = createCalls + 1
            /\ \/ /\ wp_response' = "create_201"
                  /\ cms' = AddPost(cms, title)
                  /\ created' = AddPost(created, title)
                  /\ success' = PillarCreateResult(CreatedStatus)
               \/ /\ wp_response' = "create_200"
                  /\ success' = PillarCreateResult(FallbackOkStatus)
                  /\ UNCHANGED << cms, created >>
               \/ /\ wp_response' \in {"create_http_error", "create_transport"}
                  /\ success' = "False"
                  /\ UNCHANGED << cms, created >>
               \/ /\ wp_response' = "create_answer_lost"
                  /\ success' = "False"
                  /\ cms' = AddPost(cms, title)
                  /\ UNCHANGED created
  /\ failures' = IF success' = "True" THEN failures ELSE failures + 1
  /\ pc' = "p_exit"
  /\ UNCHANGED << envVars, mainVars, entryVars, genVars, imgVars, media_id,
                  searchCalls, eligible, skipped >>

\* the process ends; the script is started again against the same CMS
PillarRestart ==
  /\ pc = "p_exit"
  /\ slept' = 0
  /\ runs + 1 < MaxRuns
  /\ runs' = runs + 1
  /\ PillarClear
  /\ pc' = "p_start"
  /\ UNCHANGED << script, client, wp_creds, unread, cms, mainVars, entry, published_parsed,
                  attempt, wait_time, rateLimited, searchCalls, histVars >>

PillarNext ==
  \/ PillarGenerate
  \/ PillarImageEnter
  \/ PillarImageCall
  \/ PillarImagePrefixedCall
  \/ PillarFallbackImage
  \/ PillarUploadMedia
  \/ PillarPost
  \/ PillarRestart

NewsletterNext ==
  \/ FeedExhausted
  \/ CapBreak
  \/ NextEntry
  \/ ParseEntry
  \/ RewriteEnter
  \/ RewriteCall
  \/ RewriteSleep
  \/ SleepBeforeImage
  \/ ImageEnter
  \/ ImageCall
  \/ ImagePrefixedCall
  \/ ImageSleep
  \/ FallbackImage
  \/ UploadMedia
  \/ PostEnter
  \/ SearchExisting
  \/ CreatePost
  \/ CountSuccess
  \/ SleepAfterPost
  \/ HandleEntryError

Next == NewsletterNext \/ PillarNext

Spec == Init /\ [][Next]_vars

\* a newsletter run over feeds given in full
TermNext ==
  \/ FeedEnds
  \/ CapBreakRest
  \/ TakeEntry
  \/ ParseEntry
  \/ RewriteEnter
  \/ RewriteCall
  \/ RewriteSleep
  \/ SleepBeforeImage
  \/ ImageEnter
  \/ ImageCall
  \/ ImagePrefixedCall
  \/ ImageSleep
  \/ FallbackImage
  \/ UploadMedia
  \/ PostEnter
  \/ SearchExisting
  \/ CreatePost
  \/ CountSuccess
  \/ SleepAfterPost
  \/ HandleEntryError

\* every call returns or raises and every sleep ends: the script, a single
\* thread, always takes its next step
TermSpec == TermInit /\ [][TermNext]_vars /\ WF_vars(TermNext)


(* ============================ properties =============================== *)
Newsletter == script = "newsletter"

\* positions of main() from the first component call of an entry to its end
CallPcs ==
  { "rewrite", "rw_call", "rw_sleep", "sleep10", "image", "img_call", "img_prefixed",
    "img_sleep", "fallback", "upload", "post", "search", "create", "count", "sleep30" }

\* the first k candidates of a list, in list order
FirstCandidates(k) == [i \in 1..k |-> i]

\* C1: publishing is idempotent per exact title: the CMS never holds two posts
\* of one title, a create request is only sent for a title the CMS does not
\* hold, and a publish that reports success leaves exactly one post of the title
C1_Idempotent ==
  Newsletter =>
    /\ \A t \in Titles : cms[t] <= 1 /\ created[t] <= 1
    /\ pc = "create" => cms[post_data.title] = 0
    /\ (pc = "count" /\ success = "True") => cms[title] = 1

\* the second publish of a title this run created: success, no create request
C1_Witness ==
  /\ Newsletter
  /\ pc = "count"
  /\ success = "True"
  /\ created[title] = 1
  /\ searchCalls = 1
  /\ createCalls = 0

\* C2: no component is ever called for an entry whose normalized timestamp is
\* not after now - 24h (or cannot be parsed): main() is at a component
\* position only with a recent entry, and outside those positions no call of
\* the current entry has been made
C2_RecencyFilter ==
  Newsletter =>
    /\ pc \in CallPcs =>
         /\ entry.published.ok
         /\ Normalize(entry.published) > NowHour - RecencyHours
         /\ published_parsed = Normalize(entry.published)
    /\ pc \in {"parse", "loop", "done"} =>
         /\ textCalls = 0
         /\ imgLog = << >>
         /\ searchCalls = 0
         /\ createCalls = 0
         /\ image_bytes = "None"
         /\ media_id = NoneId

\* an entry that looks recent by its wall clock but is stale once its offset
\* is applied was taken and dropped, and the run has made no call at all
C2_Witness ==
  /\ Newsletter
  /\ pc = "loop"
  /\ entry.published.ok
  /\ entry.published.aware
  /\ entry.published.wall > NowHour - RecencyHours
  /\ Normalize(entry.published) <= NowHour - RecencyHours
  /\ eligible = 0
  /\ attempts = 0

\* C3: generate_image requests the candidates in list order without skipping
\* any, and when it returns an image the log of requested candidates is
\* exactly 1..M+1, M+1 being the candidate whose answer is returned
C3_FallbackOrder ==
  /\ \E k \in 0..Len(ModelsToTry) : imgLog = FirstCandidates(k)
  /\ pc \in {"img_call", "p_img_call"} => Len(imgLog) \in {model_idx - 1, model_idx}
  /\ pc \in {"img_prefixed", "img_sleep", "p_img_prefixed"} => Len(imgLog) = model_idx
  /\ (pc \in {"fallback", "p_fallback"} /\ image_bytes = "ai") =>
       /\ imgFrom >= 1
       /\ imgLog = FirstCandidates(imgFrom)

\* the first two candidates failed and the third one's image is returned
C3_Witness ==
  /\ Newsletter
  /\ pc = "fallback"
  /\ image_bytes = "ai"
  /\ imgFrom = 3
  /\ imgLog = << 1, 2, 3 >>


\* positions of an accepted entry before post_to_wordpress is called for it
BeforePostPcs ==
  { "rewrite", "rw_call", "rw_sleep", "sleep10", "image", "img_call", "img_prefixed",
    "img_sleep", "fallback", "upload", "post" }

\* every accepted entry gets its post_to_wordpress call: the calls made equal
\* the entries accepted, less the one still on its way to the call
EveryAcceptedEntryIsPosted ==
  attempts = IF pc \in BeforePostPcs THEN eligible - 1 ELSE eligible

\* C4 as stated: a post made after generate_image returned None never carries
\* a featured-media reference
C4_Original ==
  (Newsletter /\ pc = "create" /\ image_bytes # "ai") => ~ HasFeaturedMedia(post_data)

\* C4 amended: after generate_image returned None the entry is still handed to
\* post_to_wordpress, and its create request carries a featured-media
\* reference exactly when the static fallback image was fetched and uploaded
C4_PostAfterAbsentImage ==
  Newsletter =>
    /\ EveryAcceptedEntryIsPosted
    /\ (pc \in {"search", "create"} /\ image_bytes # "ai") =>
         (HasFeaturedMedia(post_data) <=> (image_bytes = "fallback" /\ media_id # NoneId))

\* every candidate failed, the fallback image was uploaded, the post is created with it
C4_Witness ==
  /\ Newsletter
  /\ client
  /\ pc = "create"
  /\ image_bytes = "fallback"
  /\ rewritten_content = "generated"
  /\ HasFeaturedMedia(post_data)

\* post_to_wordpress calls whose result main() has not counted yet
InFlight == IF pc \in {"search", "create"} \/ (pc = "count" /\ success = "True") THEN 1 ELSE 0

\* C5 as stated: with 15 eligible entries exactly 10 publish attempts are made
\* and 5 entries stay unprocessed
C5_Original ==
  (Newsletter /\ pc = "done" /\ eligible + skipped = 15) => (attempts = 10 /\ skipped = 5)

\* C5 amended: the caps bound the publications counted, not the attempts: at
\* most 10 are counted (5 per feed), the attempts are the counted ones plus
\* the failed ones, and with 15 eligible entries and no failed attempt at most
\* 10 attempts are made and at least 5 entries stay unprocessed
C5_GlobalCap ==
  Newsletter =>
    /\ posted_count <= 10
    /\ feed_posted <= 5
    /\ attempts = posted_count + failures + InFlight
    /\ (pc = "done" /\ eligible + skipped = 15) =>
         /\ attempts = eligible
         /\ failures = 0 => (attempts <= 10 /\ skipped >= 5)

\* the scenario of the claim: 15 eligible entries, 10 attempts, 5 left unread
C5_Witness ==
  /\ Newsletter
  /\ pc = "done"
  /\ eligible + skipped = 15
  /\ posted_count = 10
  /\ attempts = 10
  /\ failures = 0
  /\ skipped = 5

\* C6: with a client, rewrite_article_and_prompt makes between 1 and 3
\* generate_content calls, and when every call was rate-limited it makes
\* exactly 3 and returns the fallback pair (summary, title)
C6_RetryBound ==
  Newsletter =>
    /\ textCalls <= 3
    /\ (pc = "sleep10" /\ client) => textCalls >= 1
    /\ (pc = "sleep10" /\ textCalls >= 1 /\ rateLimited = textCalls) =>
         /\ textCalls = 3
         /\ rewritten_content = "summary"
         /\ image_prompt = "title"

\* three calls, all rate-limited, and the fallback pair returned
C6_Witness ==
  /\ Newsletter
  /\ pc = "sleep10"
  /\ textCalls = 3
  /\ rateLimited = 3
  /\ rewritten_content = "summary"
  /\ image_prompt = "title"

\* C7: an exception of an entry (unparseable timestamp, malformed search
\* answer) always reaches the handler of that entry; raising and handling it
\* leave the counters and the feed position unchanged, and the handler
\* returns to the head of the same feed's loop
C7_ErrorContainment ==
  [][ Newsletter =>
        /\ (pc = "parse" /\ ~ entry.published.ok) => pc' = "except"
        /\ wp_response' = "search_malformed" => pc' = "except"
        /\ (pc = "except" \/ pc' = "except") =>
             UNCHANGED << posted_count, feed_posted, feed >>
        /\ pc = "except" => pc' = "loop" ]_vars

\* after one publication an entry with an unparseable timestamp was taken and
\* handled, and the loop is back at its head in the same feed
C7_Witness ==
  /\ Newsletter
  /\ pc = "loop"
  /\ entry.title \in Titles
  /\ ~ entry.published.ok
  /\ posted_count = 1
  /\ feed_posted = 1
  /\ feed = 1

\* C8: a failed media upload returns None without raising: the handler is
\* only ever entered from the timestamp parse or from the title search, the
\* entry still gets its post_to_wordpress call, and a request built with
\* media_id None has no featured_media field
C8_UploadBestEffort ==
  Newsletter =>
    /\ EveryAcceptedEntryIsPosted
    /\ pc = "except" => (rewritten_content = "None" \/ searchCalls = 1)
    /\ pc \in {"post", "search", "create"} => (media_id = NoneId \/ media_id = MediaId)
    /\ (pc \in {"search", "create"} /\ media_id = NoneId) => ~ HasFeaturedMedia(post_data)

\* an AI image was there, its upload failed, and the post is created without media
C8_Witness ==
  /\ Newsletter
  /\ wp_creds
  /\ pc = "create"
  /\ image_bytes = "ai"
  /\ media_id = NoneId
  /\ ~ HasFeaturedMedia(post_data)

\* C9: a failed title search makes post_to_wordpress return False without a
\* create request, a failed create makes it return False, and no request
\* failure reaches the handler of main() as an exception
C9_FailurePolicy ==
  Newsletter =>
    /\ wp_response \in {"search_http_error", "search_transport"} =>
         /\ pc = "count"
         /\ success = "False"
         /\ createCalls = 0
    /\ wp_response \in {"create_200", "create_http_error", "create_transport",
                        "create_answer_lost"} =>
         /\ pc = "count"
         /\ success = "False"
    /\ pc = "except" => wp_response \in {"None", "search_malformed"}

\* the search failed at transport level: False is returned, nothing was created
C9_Witness ==
  /\ Newsletter
  /\ pc = "count"
  /\ wp_response = "search_transport"
  /\ success = "False"
  /\ searchCalls = 1
  /\ createCalls = 0

\* C10: posted_count never exceeds 10 and feed_posted never exceeds 5, and
\* once either cap is reached main() is only at the pause after the last
\* publication, at the loop head, or finished: no component is called
C10_CapInvariant ==
  Newsletter =>
    /\ posted_count <= 10
    /\ feed_posted <= 5
    /\ (posted_count >= 10 \/ feed_posted >= 5) => pc \in {"sleep30", "loop", "done"}

\* the run ended with 10 publications and a break that left entries unread
C10_Witness ==
  /\ Newsletter
  /\ pc = "done"
  /\ posted_count = 10
  /\ feed_posted = 5
  /\ skipped >= 1

\* C11: posted_count and feed_posted are only advanced by the step that follows
\* a post_to_wordpress call that returned True, both by exactly 1; a filtered
\* entry, a call that returned False and an exception leave both unchanged
\* (the per-feed counter of the next feed starts at 0 when the feed's loop starts)
C11_NoOptimisticCount ==
  [][ Newsletter =>
        /\ (pc = "count" /\ success = "True") =>
             /\ posted_count' = posted_count + 1
             /\ feed_posted' = feed_posted + 1
        /\ ~ (pc = "count" /\ success = "True") =>
             /\ posted_count' = posted_count
             /\ feed_posted' = IF feed' = feed THEN feed_posted ELSE 0
        /\ (pc = "parse" \/ pc = "except" \/ (pc = "count" /\ success # "True")) =>
             UNCHANGED << posted_count, feed_posted, feed >> ]_vars

\* one entry was published and counted, a later one failed and was not
C11_Witness ==
  /\ Newsletter
  /\ pc = "loop"
  /\ posted_count = 1
  /\ feed_posted = 1
  /\ attempts = 2
  /\ failures = 1

\* posts that the create requests of this run were answered 201 for
NewPublications == created["Coin X rallies"] + created["Markets today"]

\* C12: the count main() prints at the end ("Posted N new articles") equals
\* the number of posts this run created; an entry whose title the CMS already
\* held is not counted
C12_FinalCountIsNewPosts ==
  (Newsletter /\ pc = "done") => posted_count = NewPublications

\* positions of an accepted entry after rewrite_article_and_prompt returned
AfterRewritePcs ==
  { "sleep10", "image", "img_call", "img_prefixed", "img_sleep", "fallback", "upload",
    "post", "search", "create", "count", "sleep30" }

\* C13: without a generative client no generate_content and no generate_images
\* request is ever made, rewrite_article_and_prompt returns (summary, title),
\* generate_image returns None, and every accepted entry still gets its
\* post_to_wordpress call with the original summary as content
C13_DegradeWithoutClient ==
  (Newsletter /\ ~ client) =>
    /\ pc \notin {"rw_call", "rw_sleep", "img_call", "img_prefixed", "img_sleep", "except"}
         \/ (pc = "except" /\ (rewritten_content = "None" \/ searchCalls = 1))
    /\ textCalls = 0
    /\ text_response = "None"
    /\ imgLog = << >>
    /\ candReqs = NoReqs
    /\ image_bytes # "ai"
    /\ pc \in AfterRewritePcs => (rewritten_content = "summary" /\ image_prompt = "title")
    /\ EveryAcceptedEntryIsPosted
    /\ pc \in {"search", "create"} => post_data.content = "summary"

\* no client: the entry is created with the original summary and the fallback image
C13_Witness ==
  /\ Newsletter
  /\ ~ client
  /\ pc = "create"
  /\ post_data.content = "summary"
  /\ post_data.title = entry.title
  /\ image_bytes = "fallback"

\* C14: the pillar script creates a post only if the CMS holds no post of
\* exactly that title, so two runs that generate the same title leave one post
C14_PillarIdempotent ==
  script = "pillar" =>
    /\ \A t \in Titles : cms[t] <= 1 /\ created[t] <= 1
    /\ (pc = "p_exit" /\ wp_response = "create_201") => cms[title] = 1

\* generate_image leaves the current candidate: the next one, or None after the last
MovesToNextCandidate ==
  /\ slept' = 0
  /\ \/ /\ model_idx < Len(ModelsToTry)
        /\ pc' = "img_call"
        /\ model_idx' = model_idx + 1
        /\ attempt' = 0
     \/ /\ model_idx = Len(ModelsToTry)
        /\ pc' = "fallback"
        /\ image_bytes' = "None"

\* an attempt of generate_image ended without an image
AttemptFailed ==
  /\ pc \in {"img_call", "img_prefixed"}
  /\ pc' # "img_prefixed"
  /\ image_bytes' # "ai"

\* C15: newsletter generate_image makes at most 2 attempts per candidate; a
\* rate-limited first attempt is followed by a 20 s sleep and a second attempt
\* of the same candidate; a rate-limited second attempt, an error without the
\* rate-limit signal and an empty image list move to the next candidate at
\* once, without a sleep
C15_PerCandidateRetry ==
  [][ Newsletter =>
        /\ pc \in {"img_call", "img_prefixed", "img_sleep"} =>
             /\ attempt \in {0, 1}
             /\ candReqs.clean <= 2
        /\ AttemptFailed =>
             IF img_response' = "rate_limited" /\ attempt = 0
               THEN /\ pc' = "img_sleep"
                    /\ slept' = 0
                    /\ UNCHANGED << model_idx, attempt >>
               ELSE MovesToNextCandidate
        /\ pc = "img_sleep" =>
             /\ img_response = "rate_limited"
             /\ attempt = 0
             /\ slept' = 20
             /\ pc' = "img_call"
             /\ model_idx' = model_idx
             /\ attempt' = 1 ]_vars

\* the first candidate was rate-limited twice (one sleep between the two
\* requests) and the second candidate is about to be requested
C15_Witness ==
  /\ Newsletter
  /\ pc = "img_call"
  /\ model_idx = 2
  /\ attempt = 0
  /\ imgLog = << 1 >>
  /\ candReqs.clean = 2
  /\ img_response = "rate_limited"
  /\ slept = 0

\* the pillar generate_image leaves the current candidate
PillarMovesToNextCandidate ==
  \/ /\ model_idx < Len(PillarModelsToTry)
     /\ pc' = "p_img_call"
     /\ model_idx' = model_idx + 1
  \/ /\ model_idx = Len(PillarModelsToTry)
     /\ pc' = "p_fallback"
     /\ image_bytes' = "None"

\* the prefixed request answered with an image, which generate_image returns
ReturnsPrefixedImage ==
  /\ image_bytes' = "ai"
  /\ imgFrom' = model_idx
  /\ pc' \in {"fallback", "p_fallback"}

C17_MalformedIsSoft ==
  [][ Newsletter =>
        /\ pc = "rw_call" =>
             /\ pc' \in {"rw_call", "rw_sleep", "sleep10"}
             /\ textCalls' = textCalls + 1
             /\ textCalls' <= 3
        /\ (pc = "rw_call" /\ text_response' = "malformed") =>
             /\ slept' = 0
             /\ IF attempt < 2
                  THEN /\ pc' = "rw_call"
                       /\ attempt' = attempt + 1
                       /\ UNCHANGED << rewritten_content, image_prompt >>
                  ELSE /\ pc' = "sleep10"
                       /\ rewritten_content' = "summary"
                       /\ image_prompt' = "title"
        /\ (pc = "sleep10" /\ text_response # "generated") =>
             /\ rewritten_content = "summary"
             /\ image_prompt = "title" ]_vars

\* three answers without the markers, no sleep, and the fallback pair returned
C17_Witness ==
  /\ Newsletter
  /\ pc = "sleep10"
  /\ textCalls = 3
  /\ rateLimited = 0
  /\ wait_time = 0
  /\ text_response = "malformed"
  /\ rewritten_content = "summary"
  /\ image_prompt = "title"

\* C18: a generate_content error without the rate-limit signal ends the
\* retries: no further call, the function returns (summary, title); the only
\* sleeps of the function follow a rate-limited first or second attempt and
\* last 30 s and 60 s; a rate-limited third attempt returns without a sleep
C18_ErrorsAbortRetries ==
  [][ Newsletter =>
        /\ (pc = "rw_call" /\ text_response' = "error") =>
             /\ pc' = "sleep10"
             /\ slept' = 0
             /\ rewritten_content' = "summary"
             /\ image_prompt' = "title"
        /\ (pc = "rw_call" /\ text_response' = "rate_limited") =>
             /\ slept' = 0
             /\ IF attempt < 2
                  THEN /\ pc' = "rw_sleep"
                       /\ attempt' = attempt
                  ELSE /\ pc' = "sleep10"
                       /\ rewritten_content' = "summary"
                       /\ image_prompt' = "title"
        /\ pc = "rw_call" => (pc' = "rw_sleep" <=> (text_response' = "rate_limited" /\ attempt < 2))
        /\ pc = "rw_sleep" =>
             /\ text_response = "rate_limited"
             /\ slept' = (IF attempt = 0 THEN 30 ELSE 60)
             /\ attempt \in {0, 1}
             /\ attempt' = attempt + 1
             /\ pc' = "rw_call"
        /\ (pc \in {"rewrite", "rw_call"}) => slept' = 0
        /\ (pc = "sleep10" /\ text_response \in {"error", "rate_limited"}) =>
             /\ rewritten_content = "summary"
             /\ image_prompt = "title"
             /\ pc' = "image" ]_vars

\* the first call was rate-limited (30 s sleep), the second raised another
\* error, and the function returned the fallback pair after two calls
C18_Witness ==
  /\ Newsletter
  /\ pc = "sleep10"
  /\ textCalls = 2
  /\ rateLimited = 1
  /\ wait_time = 30
  /\ text_response = "error"
  /\ rewritten_content = "summary"
  /\ image_prompt = "title"

\* the step of an accepted entry a position of main() belongs to, in the
\* order of the source (0: between entries)
Stage(p) ==
  CASE p \in {"rewrite", "rw_call", "rw_sleep"} -> 1
    [] p = "sleep10" -> 2
    [] p \in {"image", "img_call", "img_prefixed", "img_sleep"} -> 3
    [] p = "fallback" -> 4
    [] p = "upload" -> 5
    [] p \in {"post", "search"} -> 6
    [] p = "create" -> 7
    [] p = "count" -> 8
    [] p = "sleep30" -> 9
    [] OTHER -> 0

\* C19: the steps of an accepted entry run in the order text generation,
\* 10 s sleep, image generation, fallback fetch, upload, title search, create;
\* every request is made in its own step; the 10 s sleep is the only way
\* from text generation to image generation; a publication reported True is
\* followed by the 30 s sleep before the loop takes another entry; and the
\* loop only takes an entry when the calls of the previous one are over
C19_PacingAndOrder ==
  [][ Newsletter =>
        /\ (Stage(pc) > 0 /\ Stage(pc') > 0) => Stage(pc') >= Stage(pc)
        /\ (Stage(pc) > 0 /\ Stage(pc') = 0) => pc' \in {"loop", "except"}
        /\ (Stage(pc) = 0 /\ Stage(pc') > 0) => (pc = "parse" /\ pc' = "rewrite")
        /\ textCalls' > textCalls => pc = "rw_call"
        /\ Len(imgLog') > Len(imgLog) => pc = "img_call"
        /\ (candReqs' # candReqs /\ candReqs' # NoReqs) => pc \in {"img_call", "img_prefixed"}
        /\ searchCalls' > searchCalls => pc = "search"
        /\ createCalls' > createCalls => pc = "create"
        /\ (media_id' # media_id /\ media_id' # NoneId) => pc = "upload"
        /\ (image_bytes' = "fallback" /\ image_bytes # "fallback") => pc = "fallback"
        /\ Stage(pc) = 1 => pc' \in {"rw_call", "rw_sleep", "sleep10"}
        /\ pc = "sleep10" => (slept' = 10 /\ pc' = "image")
        /\ pc' = "image" => pc = "sleep10"
        /\ (pc = "count" /\ success = "True") => pc' = "sleep30"
        /\ pc' = "sleep30" => (pc = "count" /\ success = "True")
        /\ pc = "sleep30" => (slept' = 30 /\ pc' = "loop")
        /\ pc' = "parse" =>
             /\ pc = "loop"
             /\ textCalls = 0
             /\ imgLog = << >>
             /\ searchCalls = 0
             /\ createCalls = 0
             /\ success = "None" ]_vars

\* after one publication and its 30 s pause the next entry's text generation
\* has returned and the 10 s sleep before its image generation was made
C19_Witness ==
  /\ Newsletter
  /\ pc = "image"
  /\ slept = 10
  /\ posted_count = 1
  /\ eligible = 2
  /\ rewritten_content = "generated"

\* C20: generate_pillar_article_and_prompt makes no call without a client and
\* one call with it; when the call raises (rate-limited or not) or its answer
\* lacks a marker the function returns None values, and main() ends the run:
\* no image request, no fallback fetch, no upload, no create request
C20_PillarStopsOnFailure ==
  [][ script = "pillar" =>
        /\ textCalls' <= 1
        /\ (pc = "p_start" /\ ~ client) =>
             /\ textCalls' = textCalls
             /\ pc' = "p_exit"
        /\ (pc = "p_start" /\ client) => textCalls' = textCalls + 1
        /\ (pc = "p_start" /\ text_response' # "generated") =>
             /\ title' = "None"
             /\ rewritten_content' = "None"
             /\ image_prompt' = "None"
             /\ pc' = "p_exit"
        /\ pc' \in {"p_image", "p_img_call", "p_img_prefixed", "p_fallback", "p_upload", "p_post"} =>
             /\ text_response' = "generated"
             /\ title' \in Titles
             /\ rewritten_content' = "generated"
        /\ (pc = "p_start" /\ pc' = "p_exit") =>
             UNCHANGED << imgLog, candReqs, image_bytes, media_id, post_data, createCalls,
                          attempts, cms, created >>
        /\ (imgLog' # imgLog \/ image_bytes' = "fallback" \/ media_id' # NoneId
              \/ createCalls' > createCalls \/ cms' # cms) => text_response = "generated" ]_vars

\* the one generate_content call was rate-limited: the run ended at once,
\* without a retry and without any request to the image service or the CMS
C20_Witness ==
  /\ script = "pillar"
  /\ client
  /\ pc = "p_exit"
  /\ runs = 0
  /\ textCalls = 1
  /\ text_response = "rate_limited"
  /\ title = "None"
  /\ attempts = 0
  /\ createCalls = 0
  /\ image_bytes = "None"

\* the requests made for the entry in hand stay within their bounds
CallBounds ==
  /\ textCalls <= 3
  /\ Len(imgLog) <= Len(ModelsToTry)
  /\ candReqs.clean <= 2
  /\ candReqs.prefixed <= 2
  /\ searchCalls <= 1
  /\ createCalls <= 1
  /\ \A f \in 1..NumFeeds : unread[f] >= 0

\* the loop takes each entry of a feed once and never goes back to a feed;
\* the fallback fetch and the upload are single steps of the entry
ExaminedOnce ==
  /\ feed' >= feed
  /\ \A f \in 1..NumFeeds : unread'[f] <= unread[f]
  /\ pc' = "parse" =>
       /\ pc = "loop"
       /\ unread' = [unread EXCEPT ![feed] = @ - 1]
  /\ pc' # "parse" => unread' = unread
  /\ pc = "fallback" => pc' = "upload"
  /\ pc = "upload" => pc' = "post"

\* C21: over feeds given in full, whatever the services answer, a newsletter
\* run reaches its final print; each entry is taken at most once, and the
\* requests made for one entry are bounded: at most 3 generate_content calls,
\* at most 2 clean-name and 2 prefixed image requests for each of the 5
\* candidates, one fallback fetch, one upload, one title search, one create
C21_Termination ==
  /\ [] CallBounds
  /\ [][ExaminedOnce]_vars
  /\ <>(pc = "done")

\* the run ended: the first feed was cut by the per-feed cap with one entry
\* left unread, the second feed was read to its end
C21_Witness ==
  /\ pc = "done"
  /\ unread = << 1, 0 >>
  /\ posted_count >= 5
  /\ attempts >= 6

====
